---- MODULE Spec2Model ----
(***************************************************************************)
(* klctl: device resolution (setupDevices) and the discovery event loop    *)
(* (Discover), with the transport, the context, the idle timer and the     *)
(* DiscoveryWrapper forwarding tasks as the environment of the loop.       *)
(*                                                                         *)
(* Text is a sequence of one-character strings, so that splitting and      *)
(* parsing an address work on its characters as net.SplitHostPort and      *)
(* strconv.Atoi do.  Time is a discrete clock; TicksPerSecond ticks make   *)
(* one second.                                                             *)
(***************************************************************************)
EXTENDS Integers, Sequences, FiniteSets, TLC

\* ------------------------------------------------------------------ bounds
MaxAddrs == 2
MaxEmit == 2
MaxTime == 5
MaxList == 2
MaxLights == 2
TicksPerSecond == 2

\* ------------------------------------------------------------------- text
Digits == {"0", "1", "2", "3", "4", "5", "6", "7", "8", "9"}

DigitVal(c) ==
    CASE c = "0" -> 0 [] c = "1" -> 1 [] c = "2" -> 2 [] c = "3" -> 3
      [] c = "4" -> 4 [] c = "5" -> 5 [] c = "6" -> 6 [] c = "7" -> 7
      [] c = "8" -> 8 [] c = "9" -> 9

\* strings.IndexByte / LastIndexByte, 1-based, 0 when the byte is absent
IndexByte(s, c) ==
    IF \E i \in 1..Len(s) : s[i] = c
    THEN CHOOSE i \in 1..Len(s) : s[i] = c /\ \A j \in 1..(i - 1) : s[j] # c
    ELSE 0

LastIndexByte(s, c) ==
    IF \E i \in 1..Len(s) : s[i] = c
    THEN CHOOSE i \in 1..Len(s) : s[i] = c /\ \A j \in (i + 1)..Len(s) : s[j] # c
    ELSE 0

Slice(s, from, to) == SubSeq(s, from, to)

SplitError == [ok |-> FALSE, host |-> <<>>, port |-> <<>>]

\* net.SplitHostPort: the port starts after the last colon; a host in
\* brackets must end right before that colon; any other colon or bracket
\* is an error.
SplitHostPort(hostport) ==
    LET i == LastIndexByte(hostport, ":") IN
    IF i = 0 THEN SplitError
    ELSE IF hostport[1] = "["
    THEN LET end == IndexByte(hostport, "]") IN
         IF end = 0 THEN SplitError
         ELSE IF end = Len(hostport) THEN SplitError
         ELSE IF end + 1 # i THEN SplitError
         ELSE IF IndexByte(Slice(hostport, 2, Len(hostport)), "[") # 0 THEN SplitError
         ELSE IF IndexByte(Slice(hostport, end + 1, Len(hostport)), "]") # 0 THEN SplitError
         ELSE [ok |-> TRUE, host |-> Slice(hostport, 2, end - 1),
               port |-> Slice(hostport, i + 1, Len(hostport))]
    ELSE LET host == Slice(hostport, 1, i - 1) IN
         IF IndexByte(host, ":") # 0 THEN SplitError
         ELSE IF IndexByte(hostport, "[") # 0 THEN SplitError
         ELSE IF IndexByte(hostport, "]") # 0 THEN SplitError
         ELSE [ok |-> TRUE, host |-> host,
               port |-> Slice(hostport, i + 1, Len(hostport))]

RECURSIVE Accumulate(_, _)
\* the digit loop of strconv.Atoi: n = n*10 + digit, left to right
Accumulate(s, n) ==
    IF s = <<>> THEN n ELSE Accumulate(Tail(s), n * 10 + DigitVal(Head(s)))

\* strconv.Atoi: an optional sign, then one or more decimal digits
Atoi(s) ==
    LET signed == s # <<>> /\ Head(s) \in {"+", "-"}
        body == IF signed THEN Tail(s) ELSE s
    IN  IF body = <<>> \/ \E k \in 1..Len(body) : body[k] \notin Digits
        THEN [ok |-> FALSE, val |-> 0]
        ELSE [ok |-> TRUE,
              val |-> IF signed /\ Head(s) = "-"
                      THEN 0 - Accumulate(body, 0) ELSE Accumulate(body, 0)]

\* ------------------------------------------------------------ setupDevices
defaultPort == <<"9", "1", "2", "3">>

\* a range check that lets port 0 through
PortInRange_ZeroAllowed(p) == ~(p < 0 \/ p > 65535)

PortInRange(p) == ~(p < 1 \/ p > 65535)

KeylightDevice(host, p) == [DNSAddr |-> host, Port |-> p]

\* one iteration of the loop over lightAddrs: split, default, parse, check
ResolveAddr(lightAddr) ==
    LET split == SplitHostPort(lightAddr)
        host == IF split.ok THEN split.host ELSE lightAddr
        port == IF split.ok THEN split.port ELSE defaultPort
        p == Atoi(port)
    IN  IF ~p.ok \/ ~PortInRange(p.val)
        THEN [ok |-> FALSE, device |-> KeylightDevice(<<>>, 0)]
        ELSE [ok |-> TRUE, device |-> KeylightDevice(host, p.val)]

\* handles collected newest first
AppendHandle_Prepend(devs, device) == <<device>> \o devs

AppendHandle(devs, device) == Append(devs, device)

RECURSIVE ResolveAll(_, _)
\* the loop of setupDevices: the first invalid port ends it with an error
ResolveAll(addrs, devs) ==
    IF addrs = <<>> THEN [err |-> "none", devices |-> devs]
    ELSE LET r == ResolveAddr(Head(addrs)) IN
         IF ~r.ok THEN [err |-> "validation", devices |-> <<>>]
         ELSE ResolveAll(Tail(addrs), AppendHandle(devs, r.device))

\* discovery run whatever was resolved
NeedsDiscovery_Always(devs) == TRUE

NeedsDiscovery(devs) == Len(devs) = 0

\* ---------------------------------------------------------------- Discover
IdleWindow == 1 * TicksPerSecond

NoDeadline == 0 - 1

Idle == [holding |-> FALSE, device |-> KeylightDevice(<<>>, 0)]

Holding(d) == [holding |-> TRUE, device |-> d]

Pending == [devices |-> <<>>, err |-> "pending"]

\* a timer armed one tick longer than the idle window
TimerExpiry_Late(t) == t + IdleWindow + 1

\* time.NewTimer(time.Second) and Reset(time.Second): the next expiry
TimerExpiry(t) == t + IdleWindow

\* case <-ctx.Done(): the timeout error for a deadline, else ctx.Err()
CtxDoneReturn(cerr) ==
    IF cerr = "DeadlineExceeded"
    THEN [devices |-> <<>>, err |-> "discoveryTimeout"]
    ELSE [devices |-> <<>>, err |-> cerr]

\* advertisements collected newest first
AppendDevice_Prepend(devs, d) == <<d>> \o devs

\* devices = append(devices, device)
AppendDevice(devs, d) == Append(devs, d)

\* case <-discoveryTimeout.C: return devices, nil
TimerReturn(devs) == [devices |-> devs, err |-> "nil"]

\* the failure returned together with the partial list
ErrChReturn_KeepDevices(devs, err) == [devices |-> devs, err |-> err]

\* case err := <-errCh: return nil, err
ErrChReturn(devs, err) == [devices |-> <<>>, err |-> err]

\* the result of Discover passed on without its error
DiscoverResult_DropError(r) == [r EXCEPT !.err = "nil"]

\* return Discover(ctx, discoverer)
DiscoverResult(r) == r

\* ------------------------------------------------------------ environment
\* the advertisements a transport can emit (a device may advertise twice)
Adverts == {KeylightDevice(<<"a">>, 9123), KeylightDevice(<<"b">>, 9123)}

AddrPool ==
    { <<"h">>,
      <<"h", ":", "8", "0">>,
      <<"g", ":", "1">>,
      <<"h", ":", "0">>,
      <<"h", ":", "6", "5", "5", "3", "5">>,
      <<"h", ":", "6", "5", "5", "3", "6">>,
      <<"h", ":", "x">>,
      <<"h", ":">>,
      <<"h", ":", "-", "1">>,
      <<"h", ":", "+", "8", "0">>,
      <<"[", ":", ":", "1", "]", ":", "8", "0">>,
      <<":", ":", "1">> }

AddrLists == UNION {[1..n -> AddrPool] : n \in 0..MaxAddrs}

VARIABLES
    lightAddrs,     \* setupDevices: the addresses supplied
    adapter,        \* "direct": ResultsCh() returns one channel (FakeDiscoverer);
                    \* "wrapper": DiscoveryWrapper, a new channel and task per call
    pc,             \* "setup", "select" (Discover blocked in select),
                    \* "discovered" (Discover returned), "done"
    now,            \* the clock, in ticks
    ctxErr,         \* ctx.Err(): "none" until ctx is done
    ctxDeadline,    \* the tick at which ctx's deadline expires, or NoDeadline
    ctxAtCall,      \* ctx.Err() when Discover was called
    subCancelled,   \* the deferred cancel of subCtx has run
    discoverCalls,  \* calls of Discover, each starting one task that calls Run
    runState,       \* the task of Discover line 166: "unborn", "spawned",
                    \* "running" (inside Run), "sending" (blocked on errCh), "done"
    runResult,      \* what Run returned: "none" yet, "nil" or "discoveryError"
    resultsCh,      \* the transport's results channel, oldest first
    emitted,        \* every advertisement the transport has emitted, in order
    lastEmit,       \* the tick of the last emission (0: the call of Discover)
    gapsOK,         \* every emission came less than IdleWindow after the previous
    forwarders,     \* wrapper: the forwarding tasks, the last one feeds the select
    devices,        \* Discover's local slice
    timerActive,    \* discoveryTimeout is armed
    timerDeadline,  \* its expiry
    timerC,         \* discoveryTimeout.C holds a value
    branch,         \* the select case Discover returned through
    ret,            \* what Discover returned
    setupRet,       \* what setupDevices returned
    exitCode,       \* the exit code of the process, NoExit while it runs
    lightList,      \* the device list a command works on (handles)
    devGroup,       \* the light group each device holds
    orig,           \* devGroup before the first invocation
    opn,            \* the command of this invocation
    opc,            \* where the command is: "idle", "fetch", "update",
                    \* "status", "exited"; "parked" when no command is modelled
    round,          \* 1: first invocation, 2: the same command issued again
    firstErr,       \* the error the first invocation ended with
    idx,            \* position in lightList of the running loop
    stage,          \* "get": the fetch of getLightControlField, else "set"
    lgs,            \* the map of fetchLightGroups: handle -> light group
    todo,           \* handles the range over lgs has not visited yet
    value,          \* the value set-field writes
    calls,          \* the remote calls of this invocation, in order
    sb,             \* the strings.Builder of getDeviceStatus
    opRet,          \* what the command returned
    resolved,       \* main: the list setupDevices returns in the Before hook
    mainList,       \* main's variable lightList
    mainCtx,        \* main's variable ctx: "signal", then "timeout"
    opCtx           \* the context the command's action hands on

discVars == <<lightAddrs, adapter, pc, now, ctxErr, ctxDeadline, ctxAtCall,
          subCancelled, discoverCalls, runState, runResult, resultsCh,
          emitted, lastEmit, gapsOK, forwarders, devices, timerActive,
          timerDeadline, timerC, branch, ret, setupRet>>

inputVars == <<lightAddrs, adapter, ctxDeadline>>
ctxVars == <<ctxErr, ctxAtCall, subCancelled>>
runVars == <<runState, runResult>>
emitVars == <<resultsCh, emitted, lastEmit, gapsOK>>
timerVars == <<timerActive, timerDeadline, timerC>>
loopVars == <<forwarders, devices>>
retVars == <<branch, ret, setupRet, discoverCalls>>
opVars == <<lightList, devGroup, orig, opn, opc, round, firstErr, idx, stage,
            lgs, todo, value, calls, sb, opRet>>

mainVars == <<resolved, mainList, mainCtx, opCtx>>

vars == <<discVars, exitCode, opVars, mainVars>>

\* ------------------------------------------------------------- main, exit
NoExit == 0 - 1

TimeoutExitCode == 1

FatalExitCode == 1

\* main after app.Run: nil and context.Canceled end the process normally;
\* the timeout error carries ExitCode(); anything else goes to logrus.Fatal
ExitCodeOf(kind) ==
    CASE kind = "nil" -> 0
      [] kind = "Canceled" -> 0
      [] kind = "discoveryTimeout" -> TimeoutExitCode
      [] OTHER -> FatalExitCode

Handles == {1, 2}

NilErr == [kind |-> "nil", call |-> "none", dev |-> 0]

NoOp == [kind |-> "none", field |-> "none", arg |-> 0]

NoRet == [err |-> NilErr, val |-> 0, text |-> <<>>]

\* no command is modelled: the orchestrator's state stays as it is here
OpParked ==
    /\ lightList = <<>>
    /\ devGroup = [h \in Handles |-> <<>>]
    /\ orig = [h \in Handles |-> <<>>]
    /\ opn = NoOp
    /\ opc = "parked"
    /\ round = 1
    /\ firstErr = NilErr
    /\ idx = 1
    /\ stage = "set"
    /\ lgs = <<>>
    /\ todo = {}
    /\ value = 0
    /\ calls = <<>>
    /\ sb = <<>>
    /\ opRet = NoRet

\* main before app.Run: lightList := []Device{} and the signal context
MainParked ==
    /\ resolved = <<>>
    /\ mainList = <<>>
    /\ mainCtx = "signal"
    /\ opCtx = "none"

Init ==
    /\ OpParked
    /\ MainParked
    /\ exitCode = NoExit
    /\ lightAddrs \in AddrLists
    /\ adapter \in {"direct", "wrapper"}
    /\ ctxErr \in {"none", "Canceled", "DeadlineExceeded"}
    /\ ctxDeadline \in IF ctxErr = "DeadlineExceeded" THEN {0}
                       ELSE {NoDeadline} \cup (1..MaxTime)
    /\ pc = "setup"
    /\ now = 0
    /\ ctxAtCall = "none"
    /\ subCancelled = FALSE
    /\ discoverCalls = 0
    /\ runState = "unborn"
    /\ runResult = "none"
    /\ resultsCh = <<>>
    /\ emitted = <<>>
    /\ lastEmit = 0
    /\ gapsOK = TRUE
    /\ forwarders = <<>>
    /\ devices = <<>>
    /\ timerActive = FALSE
    /\ timerDeadline = 0
    /\ timerC = FALSE
    /\ branch = "none"
    /\ ret = Pending
    /\ setupRet = Pending

\* subCtx is done when its parent is, or when its own cancel has run
SubCtxDone == ctxErr # "none" \/ subCancelled

\* discoverer.ResultsCh(), evaluated on entering the select: the wrapper
\* makes a channel and starts a task forwarding to it
ResultsChCall(fws) == IF adapter = "wrapper" THEN Append(fws, Idle) ELSE fws

\* ------------------------------------------------------------ setupDevices
SetupInvalid ==
    /\ pc = "setup"
    /\ ResolveAll(lightAddrs, <<>>).err # "none"
    /\ setupRet' = [devices |-> <<>>, err |-> "validation"]
    /\ pc' = "done"
    /\ UNCHANGED <<opVars, mainVars, exitCode, inputVars, now, ctxVars, runVars, emitVars, timerVars,
                   loopVars, branch, ret, discoverCalls>>

SetupExplicit ==
    /\ pc = "setup"
    /\ LET r == ResolveAll(lightAddrs, <<>>) IN
        /\ r.err = "none"
        /\ ~NeedsDiscovery(r.devices)
        /\ setupRet' = [devices |-> r.devices, err |-> "nil"]
    /\ pc' = "done"
    /\ UNCHANGED <<opVars, mainVars, exitCode, inputVars, now, ctxVars, runVars, emitVars, timerVars,
                   loopVars, branch, ret, discoverCalls>>

\* len(devices) == 0: Discover is called; it makes subCtx, starts the task
\* that calls Run, arms the timer and enters the select
SetupDiscover ==
    /\ pc = "setup"
    /\ LET r == ResolveAll(lightAddrs, <<>>) IN
        /\ r.err = "none"
        /\ NeedsDiscovery(r.devices)
    /\ discoverCalls' = discoverCalls + 1
    /\ ctxAtCall' = ctxErr
    /\ runState' = "spawned"
    /\ timerActive' = TRUE
    /\ timerDeadline' = TimerExpiry(now)
    /\ forwarders' = ResultsChCall(forwarders)
    /\ pc' = "select"
    /\ UNCHANGED <<opVars, mainVars, exitCode, inputVars, now, ctxErr, subCancelled, runResult, emitVars,
                   devices, timerC, branch, ret, setupRet>>

SetupReturn ==
    /\ pc = "discovered"
    /\ setupRet' = DiscoverResult(ret)
    /\ pc' = "done"
    /\ UNCHANGED <<opVars, mainVars, exitCode, inputVars, now, ctxVars, runVars, emitVars, timerVars,
                   loopVars, branch, ret, discoverCalls>>

\* ------------------------------------------------- the select of Discover
\* Go picks any one of the cases that are ready.
CtxReady == ctxErr # "none"

DeviceReady ==
    IF adapter = "wrapper"
    THEN forwarders # <<>> /\ forwarders[Len(forwarders)].holding
    ELSE resultsCh # <<>>

TimerReady == timerC

ErrReady == runState = "sending"

SelectCtxDone ==
    /\ pc = "select"
    /\ CtxReady
    /\ ret' = CtxDoneReturn(ctxErr)
    /\ branch' = "ctx"
    /\ subCancelled' = TRUE
    /\ pc' = "discovered"
    /\ UNCHANGED <<opVars, mainVars, exitCode, inputVars, now, ctxErr, ctxAtCall, runVars, emitVars,
                   timerVars, loopVars, setupRet, discoverCalls>>

SelectDevice ==
    /\ pc = "select"
    /\ DeviceReady
    /\ IF adapter = "wrapper"
       THEN LET n == Len(forwarders) IN
            /\ devices' = AppendDevice(devices, forwarders[n].device)
            /\ forwarders' = ResultsChCall([forwarders EXCEPT ![n] = Idle])
            /\ UNCHANGED resultsCh
       ELSE /\ devices' = AppendDevice(devices, Head(resultsCh))
            /\ resultsCh' = Tail(resultsCh)
            /\ forwarders' = ResultsChCall(forwarders)
    /\ timerActive' = TRUE
    /\ timerDeadline' = TimerExpiry(now)
    /\ UNCHANGED <<opVars, mainVars, exitCode, inputVars, pc, now, ctxVars, runVars, emitted, lastEmit,
                   gapsOK, timerC, retVars>>

SelectTimer ==
    /\ pc = "select"
    /\ TimerReady
    /\ timerC' = FALSE
    /\ ret' = TimerReturn(devices)
    /\ branch' = "timer"
    /\ subCancelled' = TRUE
    /\ pc' = "discovered"
    /\ UNCHANGED <<opVars, mainVars, exitCode, inputVars, now, ctxErr, ctxAtCall, runVars, emitVars,
                   timerActive, timerDeadline, loopVars, setupRet, discoverCalls>>

SelectErrCh ==
    /\ pc = "select"
    /\ ErrReady
    /\ runState' = "done"
    /\ ret' = ErrChReturn(devices, runResult)
    /\ branch' = "errCh"
    /\ subCancelled' = TRUE
    /\ pc' = "discovered"
    /\ UNCHANGED <<opVars, mainVars, exitCode, inputVars, now, ctxErr, ctxAtCall, runResult, emitVars,
                   timerVars, loopVars, setupRet, discoverCalls>>

\* ------------------------------------------------- the task that calls Run
RunStart ==
    /\ runState = "spawned"
    /\ runState' = "running"
    /\ UNCHANGED <<opVars, mainVars, exitCode, inputVars, pc, now, ctxVars, runResult, emitVars, timerVars,
                   loopVars, retVars>>

\* Run returns an error (FakeDiscoverer.Error; a transport that cannot listen)
RunFail ==
    /\ runState = "running"
    /\ runState' = "sending"
    /\ runResult' = "discoveryError"
    /\ UNCHANGED <<opVars, mainVars, exitCode, inputVars, pc, now, ctxVars, emitVars, timerVars, loopVars,
                   retVars>>

\* <-ctx.Done(); return nil
RunStop ==
    /\ runState = "running"
    /\ SubCtxDone
    /\ runState' = "sending"
    /\ runResult' = "nil"
    /\ UNCHANGED <<opVars, mainVars, exitCode, inputVars, pc, now, ctxVars, emitVars, timerVars, loopVars,
                   retVars>>

\* the transport puts an advertisement on its results channel; once Discover
\* has returned nothing reads that channel any more
Emit ==
    /\ runState = "running"
    /\ pc = "select"
    /\ Len(emitted) < MaxEmit
    /\ \E d \in Adverts :
        /\ resultsCh' = Append(resultsCh, d)
        /\ emitted' = Append(emitted, d)
    /\ gapsOK' = (gapsOK /\ now - lastEmit < IdleWindow)
    /\ lastEmit' = now
    /\ UNCHANGED <<opVars, mainVars, exitCode, inputVars, pc, now, ctxVars, runVars, timerVars, loopVars,
                   retVars>>

\* DiscoveryWrapper.ResultsCh: a forwarding task takes the next advertisement
\* from the transport's channel and then blocks sending it on its own outCh
ForwarderTake ==
    /\ adapter = "wrapper"
    /\ resultsCh # <<>>
    /\ \E i \in 1..Len(forwarders) :
        /\ ~forwarders[i].holding
        /\ forwarders' = [forwarders EXCEPT ![i] = Holding(Head(resultsCh))]
    /\ resultsCh' = Tail(resultsCh)
    /\ UNCHANGED <<opVars, mainVars, exitCode, inputVars, pc, now, ctxVars, runVars, emitted, lastEmit,
                   gapsOK, devices, timerVars, retVars>>

\* ------------------------------------------------- timer, context and clock
TimerDue == timerActive /\ now >= timerDeadline

TimerFire ==
    /\ pc = "select"
    /\ TimerDue
    /\ timerC' = TRUE
    /\ timerActive' = FALSE
    /\ UNCHANGED <<opVars, mainVars, exitCode, inputVars, pc, now, ctxVars, runVars, emitVars,
                   timerDeadline, loopVars, retVars>>

\* a deadline that never expires
DeadlineDue_Never == FALSE

\* the runtime timer of context.WithTimeout
DeadlineDue == ctxErr = "none" /\ ctxDeadline # NoDeadline /\ now >= ctxDeadline

CtxDeadline ==
    /\ pc = "select"
    /\ DeadlineDue
    /\ ctxErr' = "DeadlineExceeded"
    /\ UNCHANGED <<opVars, mainVars, exitCode, inputVars, pc, now, ctxAtCall, subCancelled, runVars,
                   emitVars, timerVars, loopVars, retVars>>

\* the caller's cancel, or the interrupt signal
CtxCancel ==
    /\ pc = "select"
    /\ ctxErr = "none"
    /\ ctxErr' = "Canceled"
    /\ UNCHANGED <<opVars, mainVars, exitCode, inputVars, pc, now, ctxAtCall, subCancelled, runVars,
                   emitVars, timerVars, loopVars, retVars>>

CanForward ==
    /\ adapter = "wrapper"
    /\ resultsCh # <<>>
    /\ \E i \in 1..Len(forwarders) : ~forwarders[i].holding

\* time passes only while Discover is blocked: a ready case of the select is
\* taken, a due timer or deadline fires and a free forwarder forwards first
Tick ==
    /\ pc = "select"
    /\ now < MaxTime
    /\ ~(CtxReady \/ DeviceReady \/ TimerReady \/ ErrReady)
    /\ ~(TimerDue \/ DeadlineDue \/ CanForward)
    /\ now' = now + 1
    /\ UNCHANGED <<opVars, mainVars, exitCode, inputVars, pc, ctxVars, runVars, emitVars, timerVars,
                   loopVars, retVars>>

\* the Before hook returned an error: app.Run returns it and main exits
MainExit ==
    /\ pc = "done"
    /\ setupRet.err # "nil"
    /\ exitCode' = ExitCodeOf(setupRet.err)
    /\ pc' = "exited"
    /\ UNCHANGED <<opVars, mainVars, inputVars, now, ctxVars, runVars, emitVars, timerVars,
                   loopVars, retVars>>

Next ==
    \/ SetupInvalid \/ SetupExplicit \/ SetupDiscover \/ SetupReturn
    \/ SelectCtxDone \/ SelectDevice \/ SelectTimer \/ SelectErrCh
    \/ RunStart \/ RunFail \/ RunStop \/ Emit \/ ForwarderTake
    \/ TimerFire \/ CtxDeadline \/ CtxCancel \/ Tick \/ MainExit

Spec == Init /\ [][Next]_vars

\* ----------------------------------------------------- progress of Discover
\* the one device a steady transport advertises
Beacon == KeylightDevice(<<"a">>, 9123)

\* a transport that goes on advertising the same device for as long as
\* Discover listens, at most once per tick, without a limit on the number of
\* emissions
EmitSteadily ==
    /\ runState = "running"
    /\ pc = "select"
    /\ emitted = <<>> \/ lastEmit < now
    /\ resultsCh' = Append(resultsCh, Beacon)
    /\ emitted' = Append(emitted, Beacon)
    /\ gapsOK' = (gapsOK /\ now - lastEmit < IdleWindow)
    /\ lastEmit' = now
    /\ UNCHANGED <<opVars, mainVars, exitCode, inputVars, pc, now, ctxVars, runVars, timerVars, loopVars,
                   retVars>>

LiveNext ==
    \/ SetupInvalid \/ SetupExplicit \/ SetupDiscover \/ SetupReturn
    \/ SelectCtxDone \/ SelectDevice \/ SelectTimer \/ SelectErrCh
    \/ RunStart \/ RunFail \/ RunStop \/ EmitSteadily \/ ForwarderTake
    \/ TimerFire \/ CtxDeadline \/ CtxCancel \/ Tick \/ MainExit

\* The clock advances and the runtime fires due timers; a select case that
\* stays ready is taken sooner or later, since select chooses among the ready
\* cases uniformly at random; a forwarding task that can receive does.
Fairness ==
    /\ WF_vars(Tick)
    /\ WF_vars(TimerFire)
    /\ WF_vars(CtxDeadline)
    /\ WF_vars(ForwarderTake)
    /\ WF_vars(SelectCtxDone)
    /\ WF_vars(SelectDevice)
    /\ WF_vars(SelectTimer)
    /\ WF_vars(SelectErrCh)

LiveSpec == Init /\ [][LiveNext]_vars /\ Fairness

\* ================================================ the light group commands
\* Only the commands run here; discovery stays where DiscParked puts it.
DiscParked ==
    /\ lightAddrs = <<>>
    /\ adapter = "direct"
    /\ ctxErr = "none"
    /\ ctxDeadline = NoDeadline
    /\ pc = "parked"
    /\ now = 0
    /\ ctxAtCall = "none"
    /\ subCancelled = FALSE
    /\ discoverCalls = 0
    /\ runState = "unborn"
    /\ runResult = "none"
    /\ resultsCh = <<>>
    /\ emitted = <<>>
    /\ lastEmit = 0
    /\ gapsOK = TRUE
    /\ forwarders = <<>>
    /\ devices = <<>>
    /\ timerActive = FALSE
    /\ timerDeadline = 0
    /\ timerC = FALSE
    /\ branch = "none"
    /\ ret = Pending
    /\ setupRet = Pending

\* keylight.Light values a device may hold
LightPool ==
    { [On |-> 1, Brightness |-> 95, Temperature |-> 5],
      [On |-> 0, Brightness |-> 5, Temperature |-> 95] }

Groups == UNION {[1..n -> LightPool] : n \in 0..MaxLights}

DeviceLists == UNION {[1..n -> Handles] : n \in 0..MaxList}

StateKinds == {"toggle", "on", "off"}

Fields == {"brightness", "temperature"}

\* the commands of main: toggle, on, off, status, and for each control field
\* step-up (+10), step-down (-10), get and set <n>
Commands ==
    {[kind |-> k, field |-> "none", arg |-> 0] : k \in StateKinds \cup {"status"}}
    \cup {[kind |-> "adjust", field |-> f, arg |-> d] : f \in Fields, d \in {10, 0 - 10}}
    \cup {[kind |-> "get", field |-> f, arg |-> 0] : f \in Fields}
    \cup {[kind |-> "set", field |-> f, arg |-> n] : f \in Fields, n \in {0 - 5, 50, 150}}

Err(call, h) == [kind |-> "deviceIO", call |-> call, dev |-> h]

Call(call, h, group, ok) ==
    [call |-> call, dev |-> h, group |-> group, ok |-> ok, stage |-> stage]

\* the group stored under the other handle
MapPut_OtherKey(m, h, g) ==
    [k \in DOMAIN m \cup {3 - h} |-> IF k = 3 - h THEN g ELSE m[k]]

\* lgs[device] = lg
MapPut(m, h, g) == [k \in DOMAIN m \cup {h} |-> IF k = h THEN g ELSE m[k]]

\* a toggle that switches every light on
ApplyLightState_ToggleOn(light, state) ==
    CASE state = "toggle" -> [light EXCEPT !.On = 1]
      [] state = "off" -> [light EXCEPT !.On = 0]
      [] state = "on" -> [light EXCEPT !.On = 1]

\* the switch of setLightState
ApplyLightState(light, state) ==
    CASE state = "toggle" -> [light EXCEPT !.On = 1 - light.On]
      [] state = "off" -> [light EXCEPT !.On = 0]
      [] state = "on" -> [light EXCEPT !.On = 1]

\* a set that keeps the value within 0..100
SetControlField_Clamped(light, field, n) ==
    LET c == IF n > 100 THEN 100 ELSE IF n < 0 THEN 0 ELSE n IN
    CASE field = "brightness" -> [light EXCEPT !.Brightness = c]
      [] field = "temperature" -> [light EXCEPT !.Temperature = c]

\* the switch of setLightControlFieldWithValue
SetControlField(light, field, n) ==
    CASE field = "brightness" -> [light EXCEPT !.Brightness = n]
      [] field = "temperature" -> [light EXCEPT !.Temperature = n]

\* the other field returned
FieldOf_Swapped(light, field) ==
    CASE field = "brightness" -> light.Temperature
      [] field = "temperature" -> light.Brightness

\* the switch of getLightControlField
FieldOf(light, field) ==
    CASE field = "brightness" -> light.Brightness
      [] field = "temperature" -> light.Temperature

\* no upper limit
Clamp_NoUpper(v) == IF v < 0 THEN 0 ELSE v

\* adjustLightControlField: value > 100 becomes 100, value < 0 becomes 0
Clamp(v) == IF v > 100 THEN 100 ELSE IF v < 0 THEN 0 ELSE v

\* a failed fetch that does not end the loop
FetchAborts_Never(err) == FALSE

\* fetchLightGroups: if err != nil { return nil, err }
FetchAborts(err) == err # NilErr

\* a failed update that does not end the loop
UpdateAborts_Never(err) == FALSE

\* the update loops: if err != nil { return err }
UpdateAborts(err) == err # NilErr

\* the text built so far returned with the error
StatusFailText_Partial(built) == built

\* getDeviceStatus: return "", err
StatusFailText(built) == <<>>

\* the lights sent in reverse order
Mutated_Reversed(group) ==
    [j \in 1..Len(group) |->
        IF opn.kind \in StateKinds
        THEN ApplyLightState(group[Len(group) + 1 - j], opn.kind)
        ELSE SetControlField(group[Len(group) + 1 - j], opn.field, value)]

\* what the loop body of the command does to one fetched group
Mutated(group) ==
    [j \in 1..Len(group) |->
        IF opn.kind \in StateKinds
        THEN ApplyLightState(group[j], opn.kind)
        ELSE SetControlField(group[j], opn.field, value)]

\* the values the range over lgs in getLightControlField can return: the
\* field of the first light of whichever group with a light comes first in
\* the map's iteration order, 0 when there is none
Picks(m, field) ==
    IF \A h \in DOMAIN m : m[h] = <<>> THEN {0}
    ELSE {FieldOf(m[h][1], field) : h \in {k \in DOMAIN m : m[k] # <<>>}}

\* ----- fmt: decimal text of an integer, and DeviceString
DigitChar(n) ==
    CASE n = 0 -> "0" [] n = 1 -> "1" [] n = 2 -> "2" [] n = 3 -> "3"
      [] n = 4 -> "4" [] n = 5 -> "5" [] n = 6 -> "6" [] n = 7 -> "7"
      [] n = 8 -> "8" [] n = 9 -> "9"

RECURSIVE Utoa(_)
Utoa(n) == IF n < 10 THEN <<DigitChar(n)>> ELSE Utoa(n \div 10) \o <<DigitChar(n % 10)>>

Itoa(n) == IF n < 0 THEN <<"-">> \o Utoa(0 - n) ELSE Utoa(n)

AddrOf(h) == IF h = 1 THEN "192.168.1.1" ELSE "192.168.1.2"

LightString(light) ==
    <<"&{On:">> \o Itoa(light.On) \o <<" Brightness:">> \o Itoa(light.Brightness)
        \o <<" Temperature:">> \o Itoa(light.Temperature) \o <<"}">>

RECURSIVE LightsString(_)
LightsString(group) ==
    IF group = <<>> THEN <<>> ELSE LightString(Head(group)) \o LightsString(Tail(group))

DeviceString(h, group) ==
    <<"Device: ", AddrOf(h), "\n", "DeviceInfo: ", "{info}", "\n",
      "DeviceSettings: ", "{settings}", "\n", "LightGroup: ">> \o LightsString(group)

LightInit ==
    /\ DiscParked
    /\ MainParked
    /\ exitCode = NoExit
    /\ lightList \in DeviceLists
    /\ devGroup \in [Handles -> Groups]
    /\ orig = devGroup
    /\ opn = NoOp
    /\ opc = "idle"
    /\ round = 1
    /\ firstErr = NilErr
    /\ idx = 1
    /\ stage = "set"
    /\ lgs = <<>>
    /\ todo = {}
    /\ value = 0
    /\ calls = <<>>
    /\ sb = <<>>
    /\ opRet = NoRet

\* the command returns and main ends the process
Return(err, val, text) ==
    /\ opRet' = [err |-> err, val |-> val, text |-> text]
    /\ opc' = "exited"
    /\ exitCode' = ExitCodeOf(err.kind)

\* the state a command starts from
Begin(c) ==
    /\ opc' = IF c.kind = "status" THEN "status" ELSE "fetch"
    /\ stage' = IF c.kind \in {"adjust", "get"} THEN "get" ELSE "set"
    /\ value' = IF c.kind = "set" THEN c.arg ELSE 0
    /\ idx' = 1
    /\ lgs' = <<>>
    /\ todo' = {}
    /\ calls' = <<>>
    /\ sb' = <<>>
    /\ opRet' = NoRet
    /\ exitCode' = NoExit

Invoke ==
    /\ opc = "idle"
    /\ \E c \in Commands : opn' = c /\ Begin(c)
    /\ UNCHANGED <<discVars, mainVars, lightList, devGroup, orig, round, firstErr>>

\* the same command line issued once more
InvokeAgain ==
    /\ opc = "exited"
    /\ round = 1
    /\ round' = 2
    /\ firstErr' = opRet.err
    /\ Begin(opn)
    /\ UNCHANGED <<discVars, mainVars, lightList, devGroup, orig, opn>>

\* one iteration of the loop of fetchLightGroups
FetchStep ==
    /\ opc = "fetch"
    /\ idx <= Len(lightList)
    /\ LET h == lightList[idx] IN
       \E ok \in BOOLEAN :
        LET err == IF ok THEN NilErr ELSE Err("fetch", h)
            lg == IF ok THEN devGroup[h] ELSE <<>>
        IN  /\ calls' = Append(calls, Call("fetch", h, lg, ok))
            /\ IF FetchAborts(err)
               THEN /\ Return(err, 0, <<>>)
                    /\ UNCHANGED <<lgs, idx>>
               ELSE /\ lgs' = MapPut(lgs, h, lg)
                    /\ idx' = idx + 1
                    /\ UNCHANGED <<opc, opRet, exitCode>>
    /\ UNCHANGED <<discVars, mainVars, lightList, devGroup, orig, opn, round, firstErr,
                   stage, todo, value, sb>>

\* getLightControlField after its fetch, for the get command
GetReturn ==
    /\ opc = "fetch"
    /\ idx > Len(lightList)
    /\ opn.kind = "get"
    /\ \E v \in Picks(lgs, opn.field) : Return(NilErr, v, <<>>)
    /\ UNCHANGED <<discVars, mainVars, lightList, devGroup, orig, opn, round, firstErr,
                   idx, stage, lgs, todo, value, calls, sb>>

\* adjustLightControlField: the value read, changed and clamped; then
\* setLightControlFieldWithValue starts its own fetch
AdjustCompute ==
    /\ opc = "fetch"
    /\ idx > Len(lightList)
    /\ opn.kind = "adjust"
    /\ stage = "get"
    /\ \E v \in Picks(lgs, opn.field) : value' = Clamp(v + opn.arg)
    /\ stage' = "set"
    /\ idx' = 1
    /\ lgs' = <<>>
    /\ UNCHANGED <<discVars, mainVars, exitCode, lightList, devGroup, orig, opn, opc,
                   round, firstErr, todo, calls, sb, opRet>>

\* fetchLightGroups returned the map: the range over it begins
BeginUpdates ==
    /\ opc = "fetch"
    /\ idx > Len(lightList)
    /\ stage = "set"
    /\ opn.kind \in StateKinds \cup {"set", "adjust"}
    /\ opc' = "update"
    /\ todo' = DOMAIN lgs
    /\ UNCHANGED <<discVars, mainVars, exitCode, lightList, devGroup, orig, opn, round,
                   firstErr, idx, stage, lgs, value, calls, sb, opRet>>

\* one iteration of the range over lgs, in the map's order: the lights of
\* the group are changed in place and the group is sent to its device
UpdateStep ==
    /\ opc = "update"
    /\ \E h \in todo, ok \in BOOLEAN :
        LET g == Mutated(lgs[h])
            err == IF ok THEN NilErr ELSE Err("update", h)
        IN  /\ lgs' = [lgs EXCEPT ![h] = g]
            /\ calls' = Append(calls, Call("update", h, g, ok))
            /\ devGroup' = IF ok THEN [devGroup EXCEPT ![h] = g] ELSE devGroup
            /\ IF UpdateAborts(err)
               THEN /\ Return(err, 0, <<>>)
                    /\ UNCHANGED todo
               ELSE /\ todo' = todo \ {h}
                    /\ UNCHANGED <<opc, opRet, exitCode>>
    /\ UNCHANGED <<discVars, mainVars, lightList, orig, opn, round, firstErr, idx, stage,
                   value, sb>>

UpdatesDone ==
    /\ opc = "update"
    /\ todo = {}
    /\ Return(NilErr, 0, <<>>)
    /\ UNCHANGED <<discVars, mainVars, lightList, devGroup, orig, opn, round, firstErr,
                   idx, stage, lgs, todo, value, calls, sb>>

\* one iteration of the loop of getDeviceStatus: three calls, the first
\* failure returns
StatusStep ==
    /\ opc = "status"
    /\ idx <= Len(lightList)
    /\ LET h == lightList[idx] IN
       \E outcome \in {"ok", "info", "settings", "fetch"} :
        LET info == Call("info", h, <<>>, outcome # "info")
            settings == Call("settings", h, <<>>, outcome # "settings")
            fetch == Call("fetch", h, IF outcome = "ok" THEN devGroup[h] ELSE <<>>,
                          outcome # "fetch")
        IN  /\ calls' = calls \o
                 (CASE outcome = "info" -> <<info>>
                    [] outcome = "settings" -> <<info, settings>>
                    [] OTHER -> <<info, settings, fetch>>)
            /\ IF outcome = "ok"
               THEN /\ sb' = sb \o DeviceString(h, devGroup[h])
                    /\ idx' = idx + 1
                    /\ UNCHANGED <<opc, opRet, exitCode>>
               ELSE /\ Return(Err(outcome, h), 0, StatusFailText(sb))
                    /\ UNCHANGED <<sb, idx>>
    /\ UNCHANGED <<discVars, mainVars, lightList, devGroup, orig, opn, round, firstErr,
                   stage, lgs, todo, value>>

StatusDone ==
    /\ opc = "status"
    /\ idx > Len(lightList)
    /\ Return(NilErr, 0, sb)
    /\ UNCHANGED <<discVars, mainVars, lightList, devGroup, orig, opn, round, firstErr,
                   idx, stage, lgs, todo, value, calls, sb>>

LightNext ==
    \/ Invoke \/ InvokeAgain \/ FetchStep \/ GetReturn \/ AdjustCompute
    \/ BeginUpdates \/ UpdateStep \/ UpdatesDone \/ StatusStep \/ StatusDone

LightSpec == LightInit /\ [][LightNext]_vars

\* ======================================================== main's commands
\* The arguments of makeLightControlSubcommands are evaluated when the app
\* literal is built, before app.Run: the subcommands hold the list and the
\* context main had then.  The actions of toggle, on, off and status are
\* closures over main's variables and read them when they run.
CapturedList == <<>>

CapturedCtx == "signal"

\* c.Context of an app started with app.Run(os.Args)
CliContext == "background"

ClosureKinds == StateKinds \cup {"status"}

ListOf(c) == IF c.kind \in ClosureKinds THEN mainList ELSE CapturedList

CtxOf(c) ==
    CASE c.kind \in ClosureKinds -> mainCtx
      [] c.kind = "adjust" -> CapturedCtx
      [] OTHER -> CliContext

MainInit ==
    /\ DiscParked
    /\ exitCode = NoExit
    /\ resolved \in DeviceLists
    /\ mainList = <<>>
    /\ mainCtx = "signal"
    /\ opCtx = "none"
    /\ lightList = <<>>
    /\ devGroup \in [Handles -> Groups]
    /\ orig = devGroup
    /\ opn = NoOp
    /\ opc = "start"
    /\ round = 1
    /\ firstErr = NilErr
    /\ idx = 1
    /\ stage = "set"
    /\ lgs = <<>>
    /\ todo = {}
    /\ value = 0
    /\ calls = <<>>
    /\ sb = <<>>
    /\ opRet = NoRet

\* the Before hook: ctx and lightList of main are assigned
Before ==
    /\ opc = "start"
    /\ mainCtx' = "timeout"
    /\ mainList' = resolved
    /\ opc' = "idle"
    /\ UNCHANGED <<discVars, exitCode, resolved, opCtx, lightList, devGroup,
                   orig, opn, round, firstErr, idx, stage, lgs, todo, value,
                   calls, sb, opRet>>

\* the Action of the command named on the command line
Dispatch ==
    /\ opc = "idle"
    /\ \E c \in Commands :
        /\ opn' = c
        /\ lightList' = ListOf(c)
        /\ opCtx' = CtxOf(c)
        /\ Begin(c)
    /\ UNCHANGED <<discVars, resolved, mainList, mainCtx, devGroup, orig,
                   round, firstErr>>

MainNext ==
    \/ Before \/ Dispatch \/ FetchStep \/ GetReturn \/ AdjustCompute
    \/ BeginUpdates \/ UpdateStep \/ UpdatesDone \/ StatusStep \/ StatusDone

MainSpec == MainInit /\ [][MainNext]_vars

\* ================================================================== claims
Returned == branch # "none"

\* setupDevices has returned
SetupDone == pc \in {"done", "exited"}

Count(seq, d) == Cardinality({i \in 1..Len(seq) : seq[i] = d})

\* the transport's run loop has not reported a failure
NoTransportFailure == runResult # "discoveryError"

\* ----- what an address states, read off its shape "host:port" or "[host]:port"
NoneOf(s, chars) == \A i \in 1..Len(s) : s[i] \notin chars

PlainHost(h) == NoneOf(h, {":", "[", "]"})

BracketedHost(h) ==
    /\ Len(h) >= 2
    /\ h[1] = "["
    /\ h[Len(h)] = "]"
    /\ NoneOf(SubSeq(h, 2, Len(h) - 1), {"[", "]"})

\* the colon at index k separates a host from a port
PortAt(a, k) ==
    /\ a[k] = ":"
    /\ NoneOf(SubSeq(a, k + 1, Len(a)), {":", "[", "]"})
    /\ PlainHost(SubSeq(a, 1, k - 1)) \/ BracketedHost(SubSeq(a, 1, k - 1))

HasPort(a) == \E k \in 1..Len(a) : PortAt(a, k)

PortIndex(a) == CHOOSE k \in 1..Len(a) : PortAt(a, k)

StatedPort(a) == SubSeq(a, PortIndex(a) + 1, Len(a))

StatedHost(a) ==
    IF ~HasPort(a) THEN a
    ELSE LET h == SubSeq(a, 1, PortIndex(a) - 1) IN
         IF BracketedHost(h) THEN SubSeq(h, 2, Len(h) - 1) ELSE h

Unsigned(t) == IF t # <<>> /\ t[1] \in {"+", "-"} THEN Tail(t) ELSE t

Numeric(t) == Unsigned(t) # <<>> /\ \A i \in 1..Len(Unsigned(t)) : Unsigned(t)[i] \in Digits

RECURSIVE Pow10(_)
Pow10(n) == IF n = 0 THEN 1 ELSE 10 * Pow10(n - 1)

RECURSIVE PositionalSum(_, _)
PositionalSum(t, i) ==
    IF i > Len(t) THEN 0
    ELSE DigitVal(t[i]) * Pow10(Len(t) - i) + PositionalSum(t, i + 1)

NumberOf(t) ==
    IF t[1] = "-" THEN 0 - PositionalSum(Unsigned(t), 1) ELSE PositionalSum(Unsigned(t), 1)

BadPort(a) ==
    HasPort(a) /\ (~Numeric(StatedPort(a)) \/ NumberOf(StatedPort(a)) \notin 1..65535)

C2_NoneLostThroughWrapper ==
    (Returned /\ adapter = "wrapper" /\ branch = "timer" /\ gapsOK
       /\ ctxErr = "none" /\ NoTransportFailure)
    => \A d \in Adverts : Count(ret.devices, d) = Count(emitted, d)

\* C3: the transport emits nothing and reports no failure, the context is not
\* cancelled and its deadline, if any, is later than one idle window:
\* Discover returns the empty list and nil error at one idle window.
C3_EmptyAfterIdleWindow ==
    (Returned /\ emitted = <<>> /\ NoTransportFailure
       /\ ctxAtCall = "none" /\ ctxErr # "Canceled"
       /\ (ctxDeadline = NoDeadline \/ ctxDeadline > IdleWindow))
    => /\ ret = [devices |-> <<>>, err |-> "nil"]
       /\ now = IdleWindow

C3_Witness ==
    /\ Returned /\ emitted = <<>> /\ NoTransportFailure
    /\ ctxAtCall = "none" /\ ctxErr # "Canceled"
    /\ ctxDeadline > IdleWindow
    /\ runState = "running"
    /\ branch = "timer"

\* C4: called with a context whose deadline has already expired, Discover
\* returns the discovery-timeout error and no devices, whatever a transport
\* that reports no failure does.
C4_ExpiredDeadlineTimesOut ==
    (Returned /\ ctxAtCall = "DeadlineExceeded" /\ NoTransportFailure)
    => ret = [devices |-> <<>>, err |-> "discoveryTimeout"]

\* C5: called with a context already cancelled for a reason other than its
\* deadline, Discover returns context.Canceled and no devices.
C5_CancelCauseUnchanged ==
    (Returned /\ ctxAtCall = "Canceled" /\ NoTransportFailure)
    => ret = [devices |-> <<>>, err |-> "Canceled"]

\* C6: when Discover stops because Run reported a failure, it returns that
\* error and an empty list, also when advertisements had been appended.
C6_FailureWithoutDevices ==
    (branch = "errCh" /\ runResult = "discoveryError")
    => ret = [devices |-> <<>>, err |-> "discoveryError"]

C6_Witness ==
    /\ branch = "errCh"
    /\ runResult = "discoveryError"
    /\ devices # <<>>

\* C7: with an empty address list setupDevices runs Discover exactly once (one
\* task calling Run) and returns what Discover returned, error included.
C7_OneDiscoveryUnmodified ==
    (SetupDone /\ lightAddrs = <<>>)
    => /\ discoverCalls = 1
       /\ runState # "unborn"
       /\ Returned
       /\ setupRet = ret

C7_Witness ==
    /\ SetupDone
    /\ lightAddrs = <<>>
    /\ setupRet.err = "discoveryError"

\* C8: with one or more addresses Discover is never called: no task calls
\* Run, the select is never entered and no results channel is asked for or
\* read, whether the addresses pass validation or not.
C8_ExplicitBypassesDiscovery ==
    lightAddrs # <<>>
    => /\ discoverCalls = 0
       /\ runState = "unborn"
       /\ pc \in {"setup", "done", "exited"}
       /\ forwarders = <<>>
       /\ devices = <<>>
       /\ ~Returned

C8_Witness ==
    /\ SetupDone
    /\ Len(lightAddrs) = 2
    /\ setupRet.err = "nil"

\* C9: an address whose port is not a number, or is a number outside
\* [1, 65535], makes setupDevices return a validation error and no handle,
\* also for valid addresses before it, without any discovery.
C9_BadPortFailsAll ==
    (SetupDone /\ \E i \in 1..Len(lightAddrs) : BadPort(lightAddrs[i]))
    => /\ setupRet = [devices |-> <<>>, err |-> "validation"]
       /\ discoverCalls = 0
       /\ runState = "unborn"

C9_Witness ==
    /\ SetupDone
    /\ Len(lightAddrs) = 2
    /\ ~BadPort(lightAddrs[1])
    /\ BadPort(lightAddrs[2])
    /\ StatedPort(lightAddrs[2]) = <<"0">>
    /\ setupRet.err = "validation"

\* C10: k addresses that all pass validation give k handles, the i-th with
\* the host and the port number the i-th address states, and port 9123 for
\* an address that states no port.
C10_HandlesInOrder ==
    (SetupDone /\ lightAddrs # <<>> /\ setupRet.err = "nil")
    => /\ Len(setupRet.devices) = Len(lightAddrs)
       /\ \A i \in 1..Len(lightAddrs) :
            /\ setupRet.devices[i].DNSAddr = StatedHost(lightAddrs[i])
            /\ setupRet.devices[i].Port =
                 IF HasPort(lightAddrs[i])
                 THEN NumberOf(StatedPort(lightAddrs[i])) ELSE 9123

C10_Witness ==
    /\ SetupDone
    /\ setupRet.err = "nil"
    /\ Len(lightAddrs) = 2
    /\ HasPort(lightAddrs[1])
    /\ ~HasPort(lightAddrs[2])
    /\ Len(setupRet.devices) = 2

\* ----- the light group commands
Finished == opc = "exited"

Succeeded == Finished /\ opRet.err = NilErr

Listed == {lightList[i] : i \in 1..Len(lightList)}

CallsOf(name) == {k \in 1..Len(calls) : calls[k].call = name}

Largest(S) == CHOOSE m \in S : \A n \in S : n <= m

\* the group the command fetched from the device of call k, before call k
FetchedBefore(k) ==
    calls[Largest({j \in 1..(k - 1) :
        calls[j].call = "fetch" /\ calls[j].dev = calls[k].dev})].group

BothRoundsSucceeded == Succeeded /\ round = 2 /\ firstErr = NilErr

\* C11: when toggle, on or off succeeds, every group sent to a device has as
\* many lights as the group fetched from it, each with On = 1 - On (toggle),
\* 1 (on) or 0 (off) of the fetched light; and after two toggles that both
\* succeeded every listed device has the On values it started with.
C11_SwitchesEveryLight ==
    (Succeeded /\ opn.kind \in StateKinds) =>
        /\ \A k \in CallsOf("update") :
            /\ Len(calls[k].group) = Len(FetchedBefore(k))
            /\ \A j \in 1..Len(calls[k].group) :
                calls[k].group[j].On =
                    (CASE opn.kind = "toggle" -> 1 - FetchedBefore(k)[j].On
                       [] opn.kind = "on" -> 1
                       [] opn.kind = "off" -> 0)
        /\ (BothRoundsSucceeded /\ opn.kind = "toggle") =>
            \A h \in Listed : \A j \in 1..Len(orig[h]) :
                devGroup[h][j].On = orig[h][j].On

C11_Witness ==
    /\ BothRoundsSucceeded
    /\ opn.kind = "toggle"
    /\ Len(lightList) = 2
    /\ lightList[1] # lightList[2]
    /\ \E h \in Listed : \E j \in 1..Len(orig[h]) : orig[h][j].On = 0
    /\ \E h \in Listed : \E j \in 1..Len(orig[h]) : orig[h][j].On = 1
    /\ Cardinality(CallsOf("update")) = 2

\* C12: when set <n> succeeds, every light of every group sent to a device,
\* and every light the listed devices then hold, has the field equal to n
\* exactly as given, also when n is below 0 or above 100.
C12_SetsValueAsGiven ==
    (Succeeded /\ opn.kind = "set") =>
        /\ \A k \in CallsOf("update") : \A j \in 1..Len(calls[k].group) :
            FieldOf(calls[k].group[j], opn.field) = opn.arg
        /\ \A h \in Listed : \A j \in 1..Len(devGroup[h]) :
            FieldOf(devGroup[h][j], opn.field) = opn.arg

C12_Witness ==
    /\ Succeeded
    /\ opn.kind = "set"
    /\ opn.arg > 100
    /\ \E h \in Listed : Len(devGroup[h]) = 2
    /\ Cardinality(CallsOf("update")) = 2

Smaller(a, b) == IF a < b THEN a ELSE b

Larger(a, b) == IF a > b THEN a ELSE b

\* the values a step may have read: the field of the first light of a group
\* fetched for reading, 0 when no such group has a light
ReadValues ==
    LET reads == {k \in CallsOf("fetch") :
                    calls[k].stage = "get" /\ calls[k].group # <<>>}
    IN  IF reads = {} THEN {0}
        ELSE {FieldOf(calls[k].group[1], opn.field) : k \in reads}

\* every light the command read
LightsRead ==
    UNION {{calls[k].group[j] : j \in 1..Len(calls[k].group)} :
        k \in {i \in CallsOf("fetch") : calls[i].stage = "get"}}

\* C13: when a step of d succeeds, there is one value v read from a fetched
\* light such that every light sent to every device, and every light the
\* listed devices then hold, has the field equal to min(100, max(0, v + d));
\* and a step made when every light already is at the bound it moves towards
\* leaves every light at that bound.
C13_StepIsClamped ==
    (Succeeded /\ opn.kind = "adjust") =>
        /\ \E v \in ReadValues :
            LET w == Smaller(100, Larger(0, v + opn.arg)) IN
            /\ value = w
            /\ \A k \in CallsOf("update") : \A j \in 1..Len(calls[k].group) :
                FieldOf(calls[k].group[j], opn.field) = w
            /\ \A h \in Listed : \A j \in 1..Len(devGroup[h]) :
                FieldOf(devGroup[h][j], opn.field) = w
        /\ \A b \in {0, 100} :
            (/\ LightsRead # {}
             /\ (b = 100) = (opn.arg > 0)
             /\ \A l \in LightsRead : FieldOf(l, opn.field) = b)
            => \A h \in Listed : \A j \in 1..Len(devGroup[h]) :
                FieldOf(devGroup[h][j], opn.field) = b

C13_Witness ==
    /\ BothRoundsSucceeded
    /\ opn.kind = "adjust"
    /\ opn.arg = 10
    /\ value = 100
    /\ LightsRead # {}
    /\ \A l \in LightsRead : FieldOf(l, opn.field) = 100
    /\ Cardinality(Listed) = 2
    /\ Cardinality(CallsOf("update")) = 2

BatchKinds == StateKinds \cup {"set"}

\* C14: in toggle, on, off and set the k-th call is the fetch of the k-th
\* listed device, for as long as fetches are made; and when the fetch of the
\* device at position i fails the command has returned that error, the
\* failed fetch is its last call (no later device is fetched) and no update
\* was sent to any device.
C14_FetchFailureStopsAll ==
    (opn.kind \in BatchKinds) =>
        /\ \A k \in CallsOf("fetch") :
            /\ k <= Len(lightList)
            /\ calls[k].dev = lightList[k]
            /\ \A j \in 1..k : calls[j].call = "fetch"
        /\ \A i \in CallsOf("fetch") :
            ~calls[i].ok =>
                /\ Finished
                /\ opRet.err = Err("fetch", lightList[i])
                /\ Len(calls) = i
                /\ CallsOf("update") = {}
                /\ \A h \in Handles : round = 1 => devGroup[h] = orig[h]

C14_Witness ==
    /\ Finished
    /\ opn.kind \in BatchKinds
    /\ Len(lightList) = 2
    /\ lightList[1] # lightList[2]
    /\ Len(calls) = 1
    /\ ~calls[1].ok
    /\ opRet.err = Err("fetch", lightList[1])

\* C15: in toggle, on, off and set, when the update of one device fails the
\* command has returned that error and the failed update is its last call
\* (no further device is updated, the failed one is not tried again), and
\* every device updated before it holds the group that was sent to it.
C15_UpdateFailureKeepsEarlier ==
    (opn.kind \in BatchKinds) =>
        \A k \in CallsOf("update") :
            ~calls[k].ok =>
                /\ Finished
                /\ opRet.err = Err("update", calls[k].dev)
                /\ Len(calls) = k
                /\ \A j \in CallsOf("update") :
                    j < k =>
                        /\ calls[j].ok
                        /\ calls[j].dev # calls[k].dev
                        /\ devGroup[calls[j].dev] = calls[j].group

C15_Witness ==
    /\ Finished
    /\ opn.kind = "toggle"
    /\ round = 1
    /\ Len(calls) = 4
    /\ calls[3].call = "update"
    /\ calls[3].ok
    /\ calls[4].call = "update"
    /\ ~calls[4].ok
    /\ opRet.err = Err("update", calls[4].dev)
    /\ devGroup[calls[3].dev] # orig[calls[3].dev]
    /\ devGroup[calls[4].dev] = orig[calls[4].dev]

StatusCallNames == <<"info", "settings", "fetch">>

\* the calls of status: info, settings, light group of the first listed
\* device, then of the second, and so on, every call but the last successful
StatusCallsInOrder ==
    \A k \in 1..Len(calls) :
        /\ ((k - 1) \div 3) + 1 <= Len(lightList)
        /\ calls[k].dev = lightList[((k - 1) \div 3) + 1]
        /\ calls[k].call = StatusCallNames[((k - 1) % 3) + 1]
        /\ (k < Len(calls) => calls[k].ok)

\* a failed call of status is the last one, and status has returned its
\* error with the empty string
StatusFailureIsEmpty ==
    \A k \in 1..Len(calls) :
        ~calls[k].ok =>
            /\ Finished
            /\ Len(calls) = k
            /\ opRet.err = Err(calls[k].call, calls[k].dev)
            /\ opRet.text = <<>>

\* C16 as stated: status makes its three calls per device in list order, a
\* failed call returns the error with the empty string, and when all calls
\* succeed the text returned is not empty.
C16_StatusNonEmptyOnSuccess ==
    (opn.kind = "status") =>
        /\ StatusCallsInOrder
        /\ StatusFailureIsEmpty
        /\ (Succeeded => opRet.text # <<>>)

\* C16: status makes its three calls per device in list order, a failed
\* call returns the error with the empty string whatever was built for the
\* devices before, and when all calls succeed the text returned is not empty
\* provided the device list is not empty; for an empty list it is empty.
C16_StatusAllOrNothing ==
    (opn.kind = "status") =>
        /\ StatusCallsInOrder
        /\ StatusFailureIsEmpty
        /\ (Succeeded => ((opRet.text # <<>>) = (lightList # <<>>)))

C16_Witness ==
    /\ Finished
    /\ opn.kind = "status"
    /\ Len(lightList) = 2
    /\ Len(calls) = 5
    /\ ~calls[5].ok
    /\ sb # <<>>
    /\ opRet.text = <<>>
    /\ opRet.err = Err("settings", lightList[2])

\* the field the command line names, of one light
Requested(light) ==
    IF opn.field = "brightness" THEN light.Brightness ELSE light.Temperature

\* the fetches of this command that brought a group with a light
FetchesWithLight == {k \in CallsOf("fetch") : calls[k].group # <<>>}

Smallest(S) == CHOOSE m \in S : \A n \in S : m <= n

\* C17 as stated: get returns the field of the first light of the first
\* device, in fetch order, that has a light, and 0 without error when no
\* fetched group has a light.
C17_FirstInFetchOrder ==
    (Succeeded /\ opn.kind = "get") =>
        opRet.val =
            IF FetchesWithLight = {} THEN 0
            ELSE Requested(calls[Smallest(FetchesWithLight)].group[1])

\* C17: get returns the field of the first light of some fetched device
\* that has a light, not necessarily the first such device of the list, and
\* 0 without error when the list is empty or no fetched group has a light.
C17_FirstLightOfSomeDevice ==
    (Succeeded /\ opn.kind = "get") =>
        IF FetchesWithLight = {} THEN opRet.val = 0
        ELSE \E k \in FetchesWithLight : opRet.val = Requested(calls[k].group[1])

C17_Witness ==
    /\ Succeeded
    /\ opn.kind = "get"
    /\ Len(lightList) = 2
    /\ FetchesWithLight = {1, 2}
    /\ Requested(calls[1].group[1]) # Requested(calls[2].group[1])
    /\ opRet.val = Requested(calls[2].group[1])

\* C18: whatever Discover returns, subCtx is cancelled when it returns and the
\* task it started to call Run is not left blocked: once Discover has
\* returned nothing receives from errCh, so a task sending on it stays there.
C18_NoTaskOutlives ==
    (Returned /\ NoTransportFailure) => (subCancelled /\ runState # "sending")

\* C19: when discovery ends with the discovery-timeout error the exit code is
\* not 0 and differs from the exit code of every other failure that ends
\* the process (a validation failure, a transport failure).
C19_DistinctTimeoutExit ==
    (pc = "exited" /\ setupRet.err = "discoveryTimeout")
    => /\ exitCode # 0
       /\ \A other \in {"validation", "discoveryError"} : exitCode # ExitCodeOf(other)

\* C20: when the context is done at the select through which Discover
\* returns, Discover returns through the ctx.Done() case, whatever else
\* is ready.
C20_ContextFirst ==
    (Returned /\ ctxErr # "none") => branch = "ctx"

\* the moment the idle timer was last started: by NewTimer when Discover was
\* called, by Reset at each advertisement received since
LastRestart == timerDeadline - IdleWindow

\* C21: when Discover returns its list through the timer case, a full idle
\* window has passed since the timer was last restarted, that is since the
\* last advertisement was received (or since the call when none was).
C21_FullWindowOfSilence ==
    (Returned /\ branch = "timer") => now - LastRestart >= IdleWindow

\* C25: when Discover returns a nil error, the list it returns is the list of
\* the advertisements it received, also when it returns because Run ended
\* without an error.
C25_NilErrorKeepsDevices ==
    (Returned /\ ret.err = "nil") => ret.devices = devices

\* C24: under a context with a finite deadline Discover, once called,
\* eventually returns, whatever the transport does, a transport that keeps
\* advertising at every tick (an interval shorter than the idle window)
\* included.
C24_ReturnsUnderDeadline ==
    (pc = "select" /\ ctxDeadline # NoDeadline) ~> Returned

C24_Witness ==
    /\ Returned
    /\ ctxDeadline # NoDeadline
    /\ ctxAtCall = "none"
    /\ gapsOK
    /\ Len(emitted) = now + 1
    /\ branch = "ctx"
    /\ ret = [devices |-> <<>>, err |-> "discoveryTimeout"]

\* the devices the command has fetched
Fetched == {calls[k].dev : k \in CallsOf("fetch")}

\* C22: once the Before hook has resolved a non-empty list, the command that
\* runs works on that list, and when it succeeds the devices it fetched are
\* the resolved ones, for brightness and temperature step-up, step-down, get
\* and set as for toggle, on, off and status.
C22_CommandsUseResolvedList ==
    (opc \notin {"start", "idle"} /\ resolved # <<>>) =>
        /\ lightList = resolved
        /\ Succeeded => Fetched = {resolved[i] : i \in 1..Len(resolved)}

OtherField(light) ==
    IF opn.field = "brightness" THEN light.Temperature ELSE light.Brightness

\* C26: every group sent to a device has as many lights as the group fetched
\* from it, in the same order; toggle, on and off leave the brightness and
\* the temperature of each light as fetched; set and step leave the on-state
\* and the other control field of each light as fetched.
C26_OnlyTheNamedFieldChanges ==
    \A k \in CallsOf("update") :
        LET sent == calls[k].group
            got == FetchedBefore(k)
        IN  /\ Len(sent) = Len(got)
            /\ \A j \in 1..Len(sent) :
                IF opn.kind \in StateKinds
                THEN /\ sent[j].Brightness = got[j].Brightness
                     /\ sent[j].Temperature = got[j].Temperature
                ELSE /\ sent[j].On = got[j].On
                     /\ OtherField(sent[j]) = OtherField(got[j])

C26_Witness ==
    /\ Succeeded
    /\ opn.kind = "set"
    /\ \E k \in CallsOf("update") :
        /\ Len(calls[k].group) = 2
        /\ FetchedBefore(k)[1] # FetchedBefore(k)[2]
        /\ calls[k].group[1].On # calls[k].group[2].On
        /\ calls[k].group # FetchedBefore(k)

\* what the command makes of one fetched light
Commanded(light) ==
    CASE opn.kind = "toggle" -> [light EXCEPT !.On = 1 - light.On]
      [] opn.kind = "on" -> [light EXCEPT !.On = 1]
      [] opn.kind = "off" -> [light EXCEPT !.On = 0]
      [] opn.field = "brightness" -> [light EXCEPT !.Brightness = opn.arg]
      [] OTHER -> [light EXCEPT !.Temperature = opn.arg]

UpdatesOf(h) == {k \in CallsOf("update") : calls[k].dev = h}

\* C27: in toggle, on, off and set, every update comes after one fetch per
\* entry of the list; and when the command succeeds each handle of the list,
\* also one listed twice, has received exactly one update, no other handle
\* has received any, and each update carries the group fetched from its own
\* handle with the command applied to every light.
C27_OneUpdatePerHandleAfterAllFetches ==
    (opn.kind \in BatchKinds) =>
        /\ \A k \in CallsOf("update") :
            /\ k > Len(lightList)
            /\ \A j \in 1..Len(lightList) :
                calls[j].call = "fetch" /\ calls[j].ok /\ calls[j].dev = lightList[j]
        /\ Succeeded =>
            /\ \A h \in Listed : Cardinality(UpdatesOf(h)) = 1
            /\ \A k \in CallsOf("update") :
                /\ calls[k].dev \in Listed
                /\ Len(calls[k].group) = Len(FetchedBefore(k))
                /\ \A j \in 1..Len(calls[k].group) :
                    calls[k].group[j] = Commanded(FetchedBefore(k)[j])

C27_Witness ==
    /\ Succeeded
    /\ opn.kind \in BatchKinds
    /\ Len(lightList) = 2
    /\ lightList[1] # lightList[2]
    /\ Len(calls) = 4
    /\ calls[1].group # <<>>
    /\ calls[2].group # <<>>
    /\ calls[1].group # calls[2].group
    /\ calls[3].group # calls[4].group

====
